---- MODULE Spec2Model ----
(***************************************************************************)
(* One conversation turn of llm-service-boilerplate.                       *)
(*                                                                         *)
(*   web         POST /web/chat/send/{session_id}: send_message.generate,  *)
(*               an async generator with two background tasks              *)
(*               (stream_agent, keepalive) that feed one asyncio.Queue.    *)
(*   api_stream  POST /conversation with stream=true: event_generator.     *)
(*   api_invoke  POST /conversation with stream=false: agent.invoke.       *)
(*                                                                         *)
(* Spec and SpecConnectedFair run one accepted turn.  SpecRequests runs the *)
(* handlers' entry code (validation, session lookup, touch) in front of a  *)
(* turn, against the sessions collection.  SpecSessions runs the methods   *)
(* of SessionService for two concurrent callers of one collection.         *)
(*                                                                         *)
(* Time is discrete, in seconds.  A task that the event loop can run (its  *)
(* future is done, its timer is due, it has just been created) runs before *)
(* the clock advances; the response generator (the LLM) and the client     *)
(* (which resumes the handler after each yield) take time.                 *)
(***************************************************************************)
EXTENDS Integers, Sequences, FiniteSets, TLC

\* ---------------------------------------------------------------- bounds
MaxFrags      == 2    \* fragments the response generator yields at most
LatencyGrains == 4    \* clock grains the response generator takes per step at most
SendGrains    == 1    \* clock grains the client takes to accept one yielded item
MaxClock      == 1    \* ticks of the wall clock that stamps the sessions
MaxCalls      == 3    \* SessionService calls made by the concurrent callers
MaxWeeks      == 2    \* weeks that pass on the wall clock of the auth service
MaxClients    == 4    \* MongoClient instances the pool constructs at most

\* ------------------------------------------------------ program constants
SSE_KEEPALIVE_INTERVAL == 15

\* The clock is read in grains of a third of the keepalive interval.
Grain == SSE_KEEPALIVE_INTERVAL \div 3

\* Variant: the read timeout is shorter than the keepalive interval.
READ_TIMEOUT_short == SSE_KEEPALIVE_INTERVAL - Grain

\* timeout of wait_for(queue.get(), timeout=60)
READ_TIMEOUT == 60

\* timedelta(days=7): the days a login token is valid (auth_service.py line 109)
TOKEN_DAYS == 7

MaxLatency   == LatencyGrains * Grain
MaxSendDelay == SendGrains * Grain

\* ------------------------------------------------------------ input sets
Paths     == {"web", "api_stream", "api_invoke"}
SessionIds == {"s1", "s2"}
Messages  == {"hi"}
Frags     == {"a", "b"}
ErrMsgs   == {"", "rate limited"}
Users     == {"u1", "u2"}
Whitespace == {" "}
\* Strings a request carries, as the sequence of their tokens.
RawUserIds  == {<<>>, <<" ">>, <<"u1">>, <<"u2">>}
RawMessages == {<<>>, <<" ">>, <<"hi">>, <<" ", "hi">>}
Off       == 0 - 1

VARIABLES
  path,         \* which handler serves the turn
  session,      \* the session the turn was accepted for
  message,      \* the user's message, stripped and non-empty
  connected,    \* the client is still connected
  sinceDisc,    \* seconds since the client disconnected (saturating)
  pc,           \* position of generate() / event_generator / conversation
  cur,          \* item generate() has just yielded (line 274)
  delivered,    \* what the handler has yielded to the transport, in order
  queue,        \* asyncio.Queue of generate()
  done_event,   \* asyncio.Event of generate()
  agent_task,   \* stream_agent task: "none", "created", "streaming", "done"
  agentCancel,  \* agent_task has a pending cancellation
  keepalive_task, \* keepalive task: "none", "created", "waiting", "done"
  kaCancel,     \* keepalive_task has a pending cancellation
  stopAsked,    \* the tasks on which cancel() has been called
  rdTimer,      \* seconds left of wait_for(queue.get(), 60), or Off
  kaTimer,      \* seconds left of wait_for(done_event.wait(), 15), or Off
  genTimer,     \* seconds the response generator may still take, or Off
  sendTimer,    \* seconds the client may still take to resume, or Off
  calls,        \* the invocations of agent.stream / agent.invoke, in order
  yielded,      \* fragments the response generator has yielded, in order
  outcome,      \* how the response generator ended: "none", "returned", "raised", "cancelled"
  raisedMsg,    \* str(e) of the exception the generator raised
  full_response,\* event_generator's accumulator
  history       \* persisted messages per checkpointer thread

VARIABLES
  collection,   \* the documents of the sessions collection
  clock,        \* the wall clock utc_now() reads
  issued,       \* the ids generate_session_id has returned
  request,      \* the turn request being served, or NoRequest
  response,     \* HTTP status the handler answered with, 0 while it has not
  worker,       \* per caller of SessionService: the call it is in, its locals
  deleted,      \* the ids for which delete_session has returned True
  ncalls        \* SessionService calls started so far

VARIABLES
  reply,        \* what the last web session route answered, or NoReply
  users,        \* the documents of the users collection
  auth_sessions,\* the documents of the auth_sessions collection
  tokens,       \* the tokens login has returned
  loggedOut,    \* the tokens that have been passed to logout
  authReply,    \* what the last AuthService call returned
  client,       \* MongoDBPool._client: a client, or NoClient
  constructed,  \* MongoClient instances constructed so far
  verified,     \* the clients that have answered the ping of connect
  released,     \* the clients on which close() has been called
  poolReply     \* what the last MongoDBPool call returned or raised

authVars == <<users, auth_sessions, tokens, loggedOut, authReply>>
poolVars == <<client, constructed, verified, released, poolReply>>
otherVars == <<reply, authVars, poolVars>>
callerVars == <<worker, deleted, ncalls>>
serviceVars == <<collection, clock, issued, request, response, callerVars, otherVars>>

vars == <<path, session, message, connected, sinceDisc, pc, cur, delivered,
          queue, done_event, agent_task, agentCancel, keepalive_task, kaCancel,
          stopAsked, rdTimer, kaTimer, genTimer, sendTimer,
          calls, yielded, outcome, raisedMsg, full_response, history,
          serviceVars>>

\* ------------------------------------------------------------- data model
\* SessionCreate.to_session: thread_id = session_id.
to_session(sid) == [session_id |-> sid, thread_id |-> sid]

RECURSIVE Concat(_)
Concat(fs) == IF fs = <<>> THEN "" ELSE Head(fs) \o Concat(Tail(fs))

Last(s) == s[Len(s)]

\* The string a token sequence stands for.
Text(t) == Concat(t)

\* str.strip(): leading and trailing whitespace removed.
RECURSIVE lstrip(_)
lstrip(t) == IF t # <<>> /\ Head(t) \in Whitespace THEN lstrip(Tail(t)) ELSE t
RECURSIVE rstrip(_)
rstrip(t) ==
  IF t # <<>> /\ Last(t) \in Whitespace THEN rstrip(SubSeq(t, 1, Len(t) - 1)) ELSE t
strip(t) == rstrip(lstrip(t))

\* Keys under which the checkpointer can hold a thread: any string.
ThreadKeys == SessionIds \cup Messages \cup {Text(t) : t \in RawMessages}

\* Items stream_agent and keepalive put on the queue.  A dict with one key is
\* a (key, val) pair; None is the keepalive marker.
NoneItem       == [key |-> "None", val |-> ""]
ChunkItem(f)   == [key |-> "chunk", val |-> f]
DoneItem       == [key |-> "done", val |-> "true"]
ErrorItem(m)   == [key |-> "error", val |-> m]

\* dict.get(k): the value, or None (falsy) when the key is absent.
Get(item, k) == IF item.key = k THEN item.val ELSE ""

\* Python truthiness of a str / bool / None value.
Truthy(v) == v # ""

\* What the handler hands to the transport.
KeepaliveLine   == [kind |-> "comment", key |-> "keepalive", val |-> ""]
DataLine(item)  == [kind |-> "data", key |-> item.key, val |-> item.val]
Event(name, v)  == [kind |-> "event", key |-> name, val |-> v]

\* `if item.get("done") or item.get("error"): break`  (chat.py line 276)
BreaksLoop(item) == Truthy(Get(item, "done")) \/ Truthy(Get(item, "error"))

\* `if done_event.is_set(): break` after the safety timeout (line 282)
TimeoutBreaks(ev) == ev

\* ConversationAgent.stream(message, thread_id) / invoke(message, thread_id):
\* the record of one invocation, its parameters bound by position.
AgentCall(op, msg, tid) == [op |-> op, message |-> msg, thread_id |-> tid]

\* The agent runs the graph under config thread_id with HumanMessage(message)
\* as input; the checkpointer persists the input under that thread.
Submit(h, call) ==
  [h EXCEPT ![call.thread_id] = Append(@, [role |-> "user", content |-> call.message])]

\* On completion the assistant's message is persisted under the same thread.
Reply(h, call, text) ==
  [h EXCEPT ![call.thread_id] = Append(@, [role |-> "assistant", content |-> text])]

\* ------------------------------------------------- sessions (data model)
\* A document of the sessions collection (SessionsModel.to_document).
SessionsModel(sid, tid, uid, name, created, updated) ==
  [session_id |-> sid, thread_id |-> tid, user_id |-> uid, name |-> name,
   created_at |-> created, updated_at |-> updated]

\* None, as a session.
NoSession == SessionsModel("", "", "", "", 0 - 1, 0 - 1)

\* `self.name or f"Conversa {now...}"`: the default name carries the time.
NameOrDefault(name, now) == IF Truthy(name) THEN name ELSE "Conversa"

\* Variant: the thread id is generated apart from the session id.
SessionCreate_to_session_ownThread(uid, name, sid, now) ==
  SessionsModel(sid, "t-" \o sid, uid, NameOrDefault(name, now), now, now)

\* SessionCreate(user_id, name).to_session() with the generated id sid at
\* time now: thread_id = session_id, created_at = updated_at = now.
SessionCreate_to_session(uid, name, sid, now) ==
  SessionsModel(sid, sid, uid, NameOrDefault(name, now), now, now)

\* collection.find_one({field: v}): a matching document, or None.
find_one(coll, field, v) ==
  IF \E d \in coll : d[field] = v
    THEN CHOOSE d \in coll : d[field] = v
    ELSE NoSession

\* SessionService.get_session / get_session_by_thread.
get_session(coll, sid) == find_one(coll, "session_id", sid)
get_session_by_thread(coll, tid) == find_one(coll, "thread_id", tid)

\* collection.insert_one(session.to_document()).
insert_one(coll, doc) == coll \cup {doc}

\* Variant: the update inserts the document when none matches (upsert).
touch_update_upsert(coll, sid, now) ==
  IF get_session(coll, sid) # NoSession
    THEN {IF d = get_session(coll, sid) THEN [d EXCEPT !.updated_at = now] ELSE d : d \in coll}
    ELSE coll \cup {SessionsModel(sid, sid, "", "", now, now)}

\* find_one_and_update({"session_id": sid}, {"$set": {"updated_at": now}}):
\* the collection afterwards; no upsert.
touch_update(coll, sid, now) ==
  {IF d = get_session(coll, sid) THEN [d EXCEPT !.updated_at = now] ELSE d : d \in coll}

\* find_one_and_update({"session_id": sid}, {"$set": {"name", "updated_at"}}).
name_update(coll, sid, name, now) ==
  {IF d = get_session(coll, sid) THEN [d EXCEPT !.name = name, !.updated_at = now] ELSE d
     : d \in coll}

\* collection.delete_one({"session_id": sid}).
delete_one(coll, sid) == coll \ {get_session(coll, sid)}

\* `if not session`: None is falsy, a model is truthy.
Found(doc) == doc # NoSession

\* Concurrent callers of one SessionService collection.
Workers == {"w1", "w2"}
Names == {"", "trip"}

\* A caller that is in no call; result, ok and listed keep what its last call
\* returned.
Idle == [op |-> "none", pc |-> "idle", sid |-> "", uid |-> "", name |-> "",
         now |-> 0 - 1, result |-> NoSession, ok |-> FALSE, listed |-> <<>>,
         is_new |-> FALSE]

\* ------------------------------------------- other routes (data model)
\* No web session route has answered yet.
NoReply == [route |-> "none", session_id |-> "", found |-> FALSE, status |-> 0,
            logged |-> FALSE, messages |-> <<>>]

\* The answer of route r about session sid: whether the lookup found the
\* session, the HTTP status, whether a failure was logged on the way, the
\* messages of the body.
Answer(r, sid, found, status, logged, msgs) ==
  [route |-> r, session_id |-> sid, found |-> found, status |-> status,
   logged |-> logged, messages |-> msgs]

\* JSON bodies {"name": ...} of the rename route.
RawNames == {<<" ">>, <<"trip">>}

\* Variant: get_history lets the exception of the checkpoint read through.
get_history_unguarded(h, tid, fails) ==
  [raised |-> fails,
   value |-> IF fails THEN <<>>
             ELSE [i \in 1..Len(h[tid]) |->
                     [role |-> IF h[tid][i].role = "user" THEN "user" ELSE "assistant",
                      content |-> h[tid][i].content]]]

\* ConversationAgent.get_history(thread_id): the checkpoint of the thread is
\* read inside try; an exception is logged and the empty list returned, as it
\* is when there is no checkpoint; else each message is mapped to its role
\* and content.
get_history(h, tid, fails) ==
  [raised |-> FALSE,
   value |-> IF fails THEN <<>>
             ELSE [i \in 1..Len(h[tid]) |->
                     [role |-> IF h[tid][i].role = "user" THEN "user" ELSE "assistant",
                      content |-> h[tid][i].content]]]

\* checkpointer.delete_thread(thread_id): what may be left of the history
\* when it returns and when it raises (then all, or nothing, of the thread).
delete_thread(h, tid, raises) ==
  IF raises THEN {h, [h EXCEPT ![tid] = <<>>]} ELSE {[h EXCEPT ![tid] = <<>>]}

\* Variant: delete_session lets the exception of the history deletion through.
DeleteRaises_unguarded(raises) == raises

\* delete_session wraps the history deletion in try/except Exception and logs
\* (chat.py lines 107-113): nothing is raised out of the block.
DeleteRaises(raises) == FALSE

\* No AuthService call has returned yet.
NoAuthReply == [op |-> "none", arg |-> <<>>, value |-> "None"]

\* Python's None where MongoDBPool._client holds no client.
NoClient == 0

\* No MongoDBPool call has returned yet.
NoPoolReply == [op |-> "none", db |-> "", raised |-> FALSE, value |-> NoClient]

\* ------------------------------------------------- requests (data model)
NoRequest == [route |-> "none", user_id |-> <<>>, session_id |-> "",
              message |-> <<>>, stream |-> FALSE, stage |-> "none"]

\* POST /conversation: ConversationRequest(session_id, user_id, message, stream).
ConversationRequests ==
  [route : {"conversation"}, user_id : RawUserIds, session_id : {""} \cup SessionIds,
   message : RawMessages, stream : BOOLEAN, stage : {"received"}]

\* POST /web/chat/send/{session_id} by the authenticated user, JSON body
\* {"message": ...}.
SendMessageRequests ==
  [route : {"send_message"}, user_id : {<<u>> : u \in Users}, session_id : SessionIds,
   message : RawMessages, stream : {TRUE}, stage : {"received"}]

\* json.dumps({"session_id", "thread_id", "user_id"}) of the session event.
SessionData(sid, tid, uid) == "{" \o sid \o "," \o tid \o "," \o uid \o "}"

\* The turn request behind a turn of session ses on path p with message msg,
\* sent by the session's owner.
AcceptedRequest(p, ses, uid, msg) ==
  [route |-> IF p = "web" THEN "send_message" ELSE "conversation",
   user_id |-> <<uid>>, session_id |-> ses.session_id, message |-> <<msg>>,
   stream |-> (p # "api_invoke"), stage |-> "accepted"]

\* ------------------------------------------------------------------ Init
\* No web session route, AuthService call or MongoDBPool call has run; the
\* users and auth_sessions collections are empty and the pool holds no client
\* (mongo_db.py line 14).
InitOther ==
  /\ reply = NoReply
  /\ users = {}
  /\ auth_sessions = {}
  /\ tokens = {}
  /\ loggedOut = {}
  /\ authReply = NoAuthReply
  /\ client = NoClient
  /\ constructed = 0
  /\ verified = {}
  /\ released = {}
  /\ poolReply = NoPoolReply

\* Nothing of the turn has run yet.
InitTurn ==
  /\ connected = TRUE
  /\ sinceDisc = 0
  /\ pc = "init"
  /\ cur = NoneItem
  /\ delivered = <<>>
  /\ queue = <<>>
  /\ done_event = FALSE
  /\ agent_task = "none"
  /\ agentCancel = FALSE
  /\ keepalive_task = "none"
  /\ kaCancel = FALSE
  /\ stopAsked = {}
  /\ rdTimer = Off
  /\ kaTimer = Off
  /\ genTimer = Off
  /\ sendTimer = Off
  /\ calls = <<>>
  /\ yielded = <<>>
  /\ outcome = "none"
  /\ raisedMsg = ""
  /\ full_response = ""
  /\ history = [k \in ThreadKeys |-> <<>>]

\* A turn that has been accepted for a session of user u1.
Init ==
  /\ path \in Paths
  /\ session \in {to_session(sid) : sid \in SessionIds}
  /\ message \in Messages
  /\ InitTurn
  /\ clock = 0
  /\ collection = {SessionCreate_to_session("u1", "", session.session_id, clock)}
  /\ issued = {session.session_id}
  /\ request = AcceptedRequest(path, session, "u1", message)
  /\ response = 200
  /\ worker = [w \in Workers |-> Idle]
  /\ deleted = {}
  /\ ncalls = 0
  /\ InitOther

\* --------------------------------------------- web: the stream_agent task
agentVars  == <<agent_task, agentCancel, genTimer, calls, yielded, outcome, raisedMsg, history>>
kaVars     == <<keepalive_task, kaCancel, kaTimer>>
handlerVars == <<pc, cur, delivered, rdTimer, sendTimer, stopAsked, connected, sinceDisc>>
turnVars   == <<path, session, message, full_response, serviceVars>>

\* The call stream_agent makes: agent.stream(message, session.thread_id).
WebStreamCall == AgentCall("stream", message, session.thread_id)

\* First step of stream_agent: build the agent, call agent.stream and wait for
\* its first event (lines 231-235).
StreamAgentStart ==
  /\ path = "web"
  /\ agent_task = "created"
  /\ ~agentCancel
  /\ calls' = Append(calls, WebStreamCall)
  /\ history' = Submit(history, WebStreamCall)
  /\ agent_task' = "streaming"
  /\ genTimer' = MaxLatency
  /\ UNCHANGED <<agentCancel, yielded, outcome, raisedMsg, queue, done_event>>
  /\ UNCHANGED <<kaVars, handlerVars, turnVars>>

\* The generator yields a fragment; it is put on the queue (line 236).
StreamAgentChunk(f) ==
  /\ path = "web"
  /\ agent_task = "streaming"
  /\ ~agentCancel
  /\ Len(yielded) < MaxFrags
  /\ yielded' = Append(yielded, f)
  /\ queue' = Append(queue, ChunkItem(f))
  /\ genTimer' = MaxLatency
  /\ UNCHANGED <<agent_task, agentCancel, calls, outcome, raisedMsg, history, done_event>>
  /\ UNCHANGED <<kaVars, handlerVars, turnVars>>

\* Items stream_agent puts when the generator is exhausted (line 239).
OnExhausted(q) == Append(q, DoneItem)

\* Variant: the exception is logged and nothing is put.
OnException_silent(q, m) == q

\* Variant: the completion signal is put after the handler as well.
OnException_thenDone(q, m) == Append(Append(q, ErrorItem(m)), DoneItem)

\* Items stream_agent puts when the generator raises (line 243).
OnException(q, m) == Append(q, ErrorItem(m))

\* The generator is exhausted: put done, then the finally sets done_event
\* (lines 239, 245).  queue.put on an unbounded queue does not suspend.
StreamAgentDone ==
  /\ path = "web"
  /\ agent_task = "streaming"
  /\ ~agentCancel
  /\ outcome' = "returned"
  /\ history' = Reply(history, Last(calls), Concat(yielded))
  /\ queue' = OnExhausted(queue)
  /\ done_event' = TRUE
  /\ agent_task' = "done"
  /\ genTimer' = Off
  /\ UNCHANGED <<agentCancel, calls, yielded, raisedMsg>>
  /\ UNCHANGED <<kaVars, handlerVars, turnVars>>

\* Variant: the handler calls agent.stream again after a failure.
StreamAgentError_retry(m) ==
  /\ path = "web"
  /\ agent_task = "streaming"
  /\ ~agentCancel
  /\ Len(calls) < 2
  /\ calls' = Append(calls, AgentCall("stream", message, session.thread_id))
  /\ history' = Submit(history, AgentCall("stream", message, session.thread_id))
  /\ genTimer' = MaxLatency
  /\ UNCHANGED <<agent_task, agentCancel, yielded, outcome, raisedMsg, queue, done_event>>
  /\ UNCHANGED <<kaVars, handlerVars, turnVars>>

\* The generator raises: put error with str(e), set done_event (lines 241-245).
StreamAgentError(m) ==
  /\ path = "web"
  /\ agent_task = "streaming"
  /\ ~agentCancel
  /\ outcome' = "raised"
  /\ raisedMsg' = m
  /\ queue' = OnException(queue, m)
  /\ done_event' = TRUE
  /\ agent_task' = "done"
  /\ genTimer' = Off
  /\ UNCHANGED <<agentCancel, calls, yielded, history>>
  /\ UNCHANGED <<kaVars, handlerVars, turnVars>>

\* A pending cancellation reaches stream_agent.  CancelledError is not an
\* Exception: nothing is put; the finally sets done_event if the body had been
\* entered (line 245).
StreamAgentCancelled ==
  /\ path = "web"
  /\ agentCancel
  /\ agent_task \in {"created", "streaming"}
  /\ done_event' = (done_event \/ agent_task = "streaming")
  /\ outcome' = "cancelled"
  /\ agent_task' = "done"
  /\ agentCancel' = FALSE
  /\ genTimer' = Off
  /\ UNCHANGED <<calls, yielded, raisedMsg, history, queue>>
  /\ UNCHANGED <<kaVars, handlerVars, turnVars>>

\* ----------------------------------------------- web: the keepalive task
\* Variant: the keepalive task waits as long as the consumer's read timeout.
KeepaliveWait_long == READ_TIMEOUT

\* timeout of wait_for(done_event.wait(), timeout=SSE_KEEPALIVE_INTERVAL)
KeepaliveWait == SSE_KEEPALIVE_INTERVAL

\* `while not done_event.is_set()` then wait_for(done_event.wait(), 15).
KeepaliveLoop(ev) == IF ev THEN "done" ELSE "waiting"

KeepaliveStart ==
  /\ path = "web"
  /\ keepalive_task = "created"
  /\ ~kaCancel
  /\ keepalive_task' = KeepaliveLoop(done_event)
  /\ kaTimer' = IF done_event THEN Off ELSE KeepaliveWait
  /\ UNCHANGED <<kaCancel, queue, done_event>>
  /\ UNCHANGED <<agentVars, handlerVars, turnVars>>

\* The 15 s timer is due: TimeoutError, put None, test the loop condition
\* (lines 255-257, 249).  The timer can win against a done_event set in the
\* same loop iteration.
KeepaliveTimeout ==
  /\ path = "web"
  /\ keepalive_task = "waiting"
  /\ ~kaCancel
  /\ kaTimer = 0
  /\ queue' = Append(queue, NoneItem)
  /\ keepalive_task' = KeepaliveLoop(done_event)
  /\ kaTimer' = IF done_event THEN Off ELSE KeepaliveWait
  /\ UNCHANGED <<kaCancel, done_event>>
  /\ UNCHANGED <<agentVars, handlerVars, turnVars>>

\* done_event.wait() returns: the loop condition fails and the task ends.
KeepaliveWake ==
  /\ path = "web"
  /\ keepalive_task = "waiting"
  /\ ~kaCancel
  /\ done_event
  /\ keepalive_task' = "done"
  /\ kaTimer' = Off
  /\ UNCHANGED <<kaCancel, queue, done_event>>
  /\ UNCHANGED <<agentVars, handlerVars, turnVars>>

\* keepalive_task.cancel() takes effect: the task ends with CancelledError.
KeepaliveCancelled ==
  /\ path = "web"
  /\ kaCancel
  /\ keepalive_task \in {"created", "waiting"}
  /\ keepalive_task' = "done"
  /\ kaCancel' = FALSE
  /\ kaTimer' = Off
  /\ UNCHANGED <<queue, done_event>>
  /\ UNCHANGED <<agentVars, handlerVars, turnVars>>

\* ------------------------------------------ web: generate(), the consumer
\* Variant: the finally block does not await agent_task.
FinallyPc_noAgentJoin(ka, ag) == IF ka # "done" THEN "join_keepalive" ELSE "returned"

\* Where the finally block (lines 284-291) first suspends, given the state of
\* the two tasks: `await keepalive_task`, `await agent_task`, or not at all.
\* Awaiting a finished task does not suspend.
FinallyPc(ka, ag) ==
  IF ka # "done" THEN "join_keepalive"
  ELSE IF ag # "done" THEN "join_agent"
  ELSE "returned"

\* The tasks the finally block calls cancel() on (line 286).
FinallyCancels == {"keepalive"}

\* Entering the finally block: cancel, then await up to the first suspension.
EnterFinally ==
  /\ stopAsked' = stopAsked \cup FinallyCancels
  /\ kaCancel' = ("keepalive" \in FinallyCancels /\ keepalive_task # "done")
  /\ agentCancel' = (agentCancel \/ ("agent" \in FinallyCancels /\ agent_task # "done"))
  /\ pc' = FinallyPc(keepalive_task, agent_task)
  /\ rdTimer' = Off
  /\ sendTimer' = Off

\* First iteration: create queue, event and both tasks, then wait on the
\* queue (lines 226-267).
GenerateStart ==
  /\ path = "web"
  /\ pc = "init"
  /\ queue' = <<>>
  /\ done_event' = FALSE
  /\ agent_task' = "created"
  /\ keepalive_task' = "created"
  /\ pc' = "get"
  /\ rdTimer' = READ_TIMEOUT
  /\ UNCHANGED <<agentCancel, genTimer, calls, yielded, outcome, raisedMsg, history>>
  /\ UNCHANGED <<kaCancel, kaTimer, cur, delivered, sendTimer, stopAsked, connected, sinceDisc>>
  /\ UNCHANGED turnVars

\* Variant: the newest item is taken first.
QueueGet_lifo(q) == [item |-> q[Len(q)], rest |-> SubSeq(q, 1, Len(q) - 1)]

\* asyncio.Queue is first-in first-out (lines 226, 267).
QueueGet(q) == [item |-> Head(q), rest |-> Tail(q)]

\* queue.get() returns an item, which is yielded (lines 267-274).
GenerateGet ==
  /\ path = "web"
  /\ pc = "get"
  /\ queue # <<>>
  /\ LET item == QueueGet(queue).item IN
       /\ queue' = QueueGet(queue).rest
       /\ cur' = item
       /\ IF item = NoneItem
            THEN /\ delivered' = Append(delivered, KeepaliveLine)
                 /\ pc' = "yield_keepalive"
            ELSE /\ delivered' = Append(delivered, DataLine(item))
                 /\ pc' = "yield_data"
  /\ rdTimer' = Off
  /\ sendTimer' = MaxSendDelay
  /\ UNCHANGED <<done_event, stopAsked, connected, sinceDisc>>
  /\ UNCHANGED <<agentVars, kaVars, turnVars>>

\* The 60 s timer is due: TimeoutError, a keepalive is yielded (lines 279-281).
\* The timer can win against an item put in the same loop iteration; the item
\* then stays on the queue.
GenerateTimeout ==
  /\ path = "web"
  /\ pc = "get"
  /\ rdTimer = 0
  /\ delivered' = Append(delivered, KeepaliveLine)
  /\ pc' = "yield_timeout"
  /\ rdTimer' = Off
  /\ sendTimer' = MaxSendDelay
  /\ UNCHANGED <<queue, done_event, cur, stopAsked, connected, sinceDisc>>
  /\ UNCHANGED <<agentVars, kaVars, turnVars>>

\* Does the loop end when generate() is resumed at this position?
LoopEnds(p, item, ev) ==
  \/ p = "yield_data" /\ BreaksLoop(item)
  \/ p = "yield_timeout" /\ TimeoutBreaks(ev)

\* The transport asks for the next item: generate() resumes after its yield
\* and either breaks into the finally block or waits on the queue again.
GenerateResume ==
  /\ path = "web"
  /\ pc \in {"yield_keepalive", "yield_data", "yield_timeout"}
  /\ IF LoopEnds(pc, cur, done_event)
       THEN EnterFinally
       ELSE /\ pc' = "get"
            /\ rdTimer' = READ_TIMEOUT
            /\ sendTimer' = Off
            /\ UNCHANGED <<stopAsked, kaCancel, agentCancel>>
  /\ UNCHANGED <<queue, done_event, cur, delivered, connected, sinceDisc>>
  /\ UNCHANGED <<agent_task, genTimer, calls, yielded, outcome, raisedMsg, history>>
  /\ UNCHANGED <<keepalive_task, kaTimer, turnVars>>

\* The client disconnects while generate() is suspended at a yield: the
\* generator is closed, GeneratorExit runs the finally block.
GenerateClose ==
  /\ path = "web"
  /\ connected
  /\ pc \in {"yield_keepalive", "yield_data", "yield_timeout"}
  /\ connected' = FALSE
  /\ EnterFinally
  /\ UNCHANGED <<queue, done_event, cur, delivered, sinceDisc>>
  /\ UNCHANGED <<agent_task, genTimer, calls, yielded, outcome, raisedMsg, history>>
  /\ UNCHANGED <<keepalive_task, kaTimer, turnVars>>

\* The client disconnects while generate() waits on the queue: the response
\* task is cancelled, CancelledError runs the finally block.
GenerateCancel ==
  /\ path = "web"
  /\ connected
  /\ pc = "get"
  /\ connected' = FALSE
  /\ EnterFinally
  /\ UNCHANGED <<queue, done_event, cur, delivered, sinceDisc>>
  /\ UNCHANGED <<agent_task, genTimer, calls, yielded, outcome, raisedMsg, history>>
  /\ UNCHANGED <<keepalive_task, kaTimer, turnVars>>

\* `await keepalive_task` completes (lines 287-290); CancelledError is
\* swallowed.  Then `await agent_task` (line 291).
GenerateJoinedKeepalive ==
  /\ path = "web"
  /\ pc = "join_keepalive"
  /\ keepalive_task = "done"
  /\ pc' = FinallyPc(keepalive_task, agent_task)
  /\ UNCHANGED <<queue, done_event, cur, delivered, rdTimer, sendTimer, stopAsked, connected, sinceDisc>>
  /\ UNCHANGED <<agentVars, kaVars, turnVars>>

\* `await agent_task` completes (line 291): generate() is finished.
GenerateJoinedAgent ==
  /\ path = "web"
  /\ pc = "join_agent"
  /\ agent_task = "done"
  /\ pc' = "returned"
  /\ UNCHANGED <<queue, done_event, cur, delivered, rdTimer, sendTimer, stopAsked, connected, sinceDisc>>
  /\ UNCHANGED <<agentVars, kaVars, turnVars>>

\* The response task is cancelled again while generate() awaits agent_task
\* after a disconnect: asyncio forwards the cancellation to the awaited task.
GenerateRecancel ==
  /\ path = "web"
  /\ ~connected
  /\ pc = "join_agent"
  /\ agent_task # "done"
  /\ ~agentCancel
  /\ agentCancel' = TRUE
  /\ UNCHANGED <<queue, done_event, agent_task, genTimer, calls, yielded, outcome, raisedMsg, history>>
  /\ UNCHANGED <<kaVars, handlerVars, turnVars>>

\* --------------------------------- api: event_generator (conversation.py)
webVars == <<cur, queue, done_event, agent_task, agentCancel, keepalive_task,
             kaCancel, stopAsked, rdTimer, kaTimer>>

\* The call event_generator makes: agent.stream(thread_id, message) (line 82).
ApiStreamCall == AgentCall("stream", session.thread_id, message)

\* The call conversation makes: agent.invoke(thread_id, request.message) (line 169).
ApiInvokeCall == AgentCall("invoke", session.thread_id, message)

\* The session event: session_id, thread_id and the user_id of the request
\* (lines 71-78, 159-165).
SessionEvent ==
  Event("session", SessionData(session.session_id, session.thread_id, Text(request.user_id)))

\* The session event is yielded first (lines 71-78).
EventGenStart ==
  /\ path = "api_stream"
  /\ pc = "init"
  /\ delivered' = Append(delivered, SessionEvent)
  /\ pc' = "yield_session"
  /\ sendTimer' = MaxSendDelay
  /\ UNCHANGED <<connected, sinceDisc, genTimer, calls, yielded, outcome, raisedMsg, history>>
  /\ UNCHANGED <<webVars, turnVars>>

\* Resumed after the session event: full_response = "", agent.stream is
\* called and awaited (lines 81-82).
EventGenInvoke ==
  /\ path = "api_stream"
  /\ pc = "yield_session"
  /\ full_response' = ""
  /\ calls' = Append(calls, ApiStreamCall)
  /\ history' = Submit(history, ApiStreamCall)
  /\ pc' = "streaming"
  /\ genTimer' = MaxLatency
  /\ sendTimer' = Off
  /\ UNCHANGED <<connected, sinceDisc, delivered, yielded, outcome, raisedMsg>>
  /\ UNCHANGED <<webVars, path, session, message, serviceVars>>

\* Variant: the accumulator keeps only the latest chunk.
Accumulate_overwrite(acc, chunk) == chunk

\* full_response += chunk (line 83).
Accumulate(acc, chunk) == acc \o chunk

\* The generator yields a fragment: accumulate, yield a message event
\* (lines 83-87).
EventGenChunk(f) ==
  /\ path = "api_stream"
  /\ pc = "streaming"
  /\ Len(yielded) < MaxFrags
  /\ yielded' = Append(yielded, f)
  /\ full_response' = Accumulate(full_response, f)
  /\ delivered' = Append(delivered, Event("message", f))
  /\ pc' = "yield_message"
  /\ genTimer' = Off
  /\ sendTimer' = MaxSendDelay
  /\ UNCHANGED <<connected, sinceDisc, calls, outcome, raisedMsg, history>>
  /\ UNCHANGED <<webVars, path, session, message, serviceVars>>

\* Resumed after a message event: the generator is advanced again.
EventGenNext ==
  /\ path = "api_stream"
  /\ pc = "yield_message"
  /\ pc' = "streaming"
  /\ genTimer' = MaxLatency
  /\ sendTimer' = Off
  /\ UNCHANGED <<connected, sinceDisc, delivered, calls, yielded, outcome, raisedMsg, history>>
  /\ UNCHANGED <<webVars, turnVars>>

\* The generator is exhausted: the done event is yielded (lines 90-97).
EventGenDone ==
  /\ path = "api_stream"
  /\ pc = "streaming"
  /\ outcome' = "returned"
  /\ history' = Reply(history, Last(calls), Concat(yielded))
  /\ delivered' = Append(delivered, Event("done", full_response))
  /\ pc' = "yield_done"
  /\ genTimer' = Off
  /\ sendTimer' = MaxSendDelay
  /\ UNCHANGED <<connected, sinceDisc, calls, yielded, raisedMsg>>
  /\ UNCHANGED <<webVars, turnVars>>

\* The generator raises: the error event is yielded (lines 99-103).
EventGenError(m) ==
  /\ path = "api_stream"
  /\ pc = "streaming"
  /\ outcome' = "raised"
  /\ raisedMsg' = m
  /\ delivered' = Append(delivered, Event("error", m))
  /\ pc' = "yield_error"
  /\ genTimer' = Off
  /\ sendTimer' = MaxSendDelay
  /\ UNCHANGED <<connected, sinceDisc, calls, yielded, history>>
  /\ UNCHANGED <<webVars, turnVars>>

\* Resumed after the done or error event: event_generator returns.
EventGenFinish ==
  /\ path = "api_stream"
  /\ pc \in {"yield_done", "yield_error"}
  /\ pc' = "returned"
  /\ sendTimer' = Off
  /\ UNCHANGED <<connected, sinceDisc, delivered, genTimer, calls, yielded, outcome, raisedMsg, history>>
  /\ UNCHANGED <<webVars, turnVars>>

\* The client disconnects: GeneratorExit at a yield, or CancelledError while
\* the generator is awaited.  Neither is an Exception: nothing is yielded.
EventGenDisconnect ==
  /\ path = "api_stream"
  /\ connected
  /\ pc \in {"yield_session", "yield_message", "yield_done", "yield_error", "streaming"}
  /\ connected' = FALSE
  /\ outcome' = IF pc = "streaming" THEN "cancelled" ELSE outcome
  /\ pc' = "returned"
  /\ genTimer' = Off
  /\ sendTimer' = Off
  /\ UNCHANGED <<sinceDisc, delivered, calls, yielded, raisedMsg, history>>
  /\ UNCHANGED <<webVars, turnVars>>

\* ------------------------------- api: conversation with stream = false
\* agent.invoke is called and awaited (line 169).
ConversationInvoke ==
  /\ path = "api_invoke"
  /\ pc = "init"
  /\ calls' = Append(calls, ApiInvokeCall)
  /\ history' = Submit(history, ApiInvokeCall)
  /\ pc' = "invoking"
  /\ genTimer' = MaxLatency
  /\ UNCHANGED <<connected, sinceDisc, delivered, sendTimer, yielded, outcome, raisedMsg>>
  /\ UNCHANGED <<webVars, turnVars>>

\* agent.invoke returns the assistant's last message (lines 169-177).
ConversationReturn(text) ==
  /\ path = "api_invoke"
  /\ pc = "invoking"
  /\ outcome' = "returned"
  /\ history' = Reply(history, Last(calls), text)
  /\ delivered' = Append(delivered, Event("response", text))
  /\ pc' = "returned"
  /\ genTimer' = Off
  /\ UNCHANGED <<connected, sinceDisc, sendTimer, calls, yielded, raisedMsg>>
  /\ UNCHANGED <<webVars, turnVars>>

\* agent.invoke raises: the exception leaves the handler.
ConversationRaise(m) ==
  /\ path = "api_invoke"
  /\ pc = "invoking"
  /\ outcome' = "raised"
  /\ raisedMsg' = m
  /\ pc' = "returned"
  /\ genTimer' = Off
  /\ UNCHANGED <<connected, sinceDisc, delivered, sendTimer, calls, yielded, history>>
  /\ UNCHANGED <<webVars, turnVars>>

\* ------------------------------------------------------------------ time
\* Something the event loop runs without waiting for the clock.
Runnable ==
  \/ pc = "init"
  \/ agent_task = "created"
  \/ keepalive_task = "created"
  \/ agentCancel /\ agent_task # "done"
  \/ kaCancel /\ keepalive_task # "done"
  \/ keepalive_task = "waiting" /\ done_event
  \/ pc = "get" /\ queue # <<>>
  \/ pc = "join_keepalive" /\ keepalive_task = "done"
  \/ pc = "join_agent" /\ agent_task = "done"

Timers == <<rdTimer, kaTimer, genTimer, sendTimer>>
Running == {i \in 1..4 : Timers[i] # Off}
Elapse(t, d) == IF t = Off THEN Off ELSE t - d
NextDue == CHOOSE d \in 0..READ_TIMEOUT + MaxLatency + MaxSendDelay :
             /\ \A i \in Running : d <= Timers[i]
             /\ \E i \in Running : d = Timers[i]

\* The clock advances to the next due timer, or by one grain.
TickSteps == {Grain} \cup (IF Running = {} THEN {} ELSE {NextDue})
Horizon == 2 * SSE_KEEPALIVE_INTERVAL + 1

\* d seconds pass: no timer is overrun, nothing runnable is kept waiting.
Tick(d) ==
  /\ ~Runnable
  /\ Running # {}
  /\ d > 0
  /\ \A i \in Running : d <= Timers[i]
  /\ rdTimer' = Elapse(rdTimer, d)
  /\ kaTimer' = Elapse(kaTimer, d)
  /\ genTimer' = Elapse(genTimer, d)
  /\ sendTimer' = Elapse(sendTimer, d)
  /\ sinceDisc' = IF connected THEN 0
                  ELSE IF sinceDisc + d > Horizon THEN Horizon ELSE sinceDisc + d
  /\ UNCHANGED <<serviceVars, path, session, message, connected, pc, cur, delivered, queue,
                 done_event, agent_task, agentCancel, keepalive_task, kaCancel,
                 stopAsked, calls, yielded, outcome, raisedMsg, full_response, history>>

Next ==
  \/ StreamAgentStart
  \/ \E f \in Frags : StreamAgentChunk(f)
  \/ StreamAgentDone
  \/ \E m \in ErrMsgs : StreamAgentError(m)
  \/ StreamAgentCancelled
  \/ KeepaliveStart
  \/ KeepaliveTimeout
  \/ KeepaliveWake
  \/ KeepaliveCancelled
  \/ GenerateStart
  \/ GenerateGet
  \/ GenerateTimeout
  \/ GenerateResume
  \/ GenerateClose
  \/ GenerateCancel
  \/ GenerateJoinedKeepalive
  \/ GenerateJoinedAgent
  \/ GenerateRecancel
  \/ EventGenStart
  \/ EventGenInvoke
  \/ \E f \in Frags : EventGenChunk(f)
  \/ EventGenNext
  \/ EventGenDone
  \/ \E m \in ErrMsgs : EventGenError(m)
  \/ EventGenFinish
  \/ EventGenDisconnect
  \/ ConversationInvoke
  \/ \E t \in Frags : ConversationReturn(t)
  \/ \E m \in ErrMsgs : ConversationRaise(m)
  \/ \E d \in TickSteps : Tick(d)

Spec == Init /\ [][Next]_vars

TypeOK ==
  /\ path \in Paths
  /\ connected \in BOOLEAN
  /\ done_event \in BOOLEAN
  /\ agent_task \in {"none", "created", "streaming", "done"}
  /\ keepalive_task \in {"none", "created", "waiting", "done"}
  /\ rdTimer \in Off..READ_TIMEOUT
  /\ kaTimer \in Off..SSE_KEEPALIVE_INTERVAL
  /\ Len(yielded) <= MaxFrags

\* ------------------------- the web turn with a client that stays connected
\* (the producer has always finished when the finally block is entered, so
\* `await agent_task` never suspends).
\* Sessions are interchangeable here: the turn is for the first one.
InitWeb == Init /\ path = "web" /\ session = to_session("s1")

NextConnected ==
  \/ StreamAgentStart
  \/ \E f \in Frags : StreamAgentChunk(f)
  \/ StreamAgentDone
  \/ \E m \in ErrMsgs : StreamAgentError(m)
  \/ KeepaliveStart
  \/ KeepaliveTimeout
  \/ KeepaliveWake
  \/ KeepaliveCancelled
  \/ GenerateStart
  \/ GenerateGet
  \/ GenerateTimeout
  \/ GenerateResume
  \/ GenerateJoinedKeepalive
  \/ \E d \in TickSteps : Tick(d)

\* The turn does not halt while a step is possible: the event loop runs every
\* runnable task, the clock advances, the response generator answers within
\* its latency and the client keeps reading.
FairConnected == WF_vars(NextConnected)

SpecConnectedFair == InitWeb /\ [][NextConnected]_vars /\ FairConnected

\* ------------------------------------ requests: the handlers' entry code
\* Everything of a turn but the request it runs for.
streamVars == <<connected, sinceDisc, pc, cur, delivered, queue, done_event,
                agent_task, agentCancel, keepalive_task, kaCancel, stopAsked,
                rdTimer, kaTimer, genTimer, sendTimer, calls, yielded, outcome,
                raisedMsg, full_response, history>>

\* The wall clock advances.
ClockTick ==
  /\ request = NoRequest
  /\ clock < MaxClock
  /\ clock' = clock + 1
  /\ UNCHANGED <<collection, issued, request, response, path, session, message, streamVars, callerVars, otherVars>>

\* POST /web/chat/session by user u: create_session(SessionCreate(user_id,
\* "Nova Conversa")) (chat.py lines 64-86, session_service.py lines 53-83).
WebCreateSession(u, sid) ==
  /\ request = NoRequest
  /\ sid \notin issued
  /\ collection' = insert_one(collection, SessionCreate_to_session(u, "Nova Conversa", sid, clock))
  /\ issued' = issued \cup {sid}
  /\ UNCHANGED <<clock, request, response, path, session, message, streamVars, callerVars, otherVars>>

\* A turn request arrives.
Receive(req) ==
  /\ request = NoRequest
  /\ request' = req
  /\ UNCHANGED <<collection, clock, issued, response, path, session, message, streamVars, callerVars, otherVars>>

\* raise HTTPException(status_code=code).
Reject(code) ==
  /\ response' = code
  /\ request' = [request EXCEPT !.stage = "rejected"]
  /\ UNCHANGED <<collection, clock, issued, path, session, message>>

\* Variant: the string is tested without being stripped.
IsBlank_unstripped(raw) == ~Truthy(Text(raw))

\* `not s.strip()`: the string is empty once stripped.
IsBlank(raw) == ~Truthy(Text(strip(raw)))

\* Variant: POST /conversation compares the session's owner with the
\* request's user_id.
ConversationOwns_checked(doc, uid) == doc.user_id = uid

\* POST /conversation tests the session for existence only (lines 138-141).
ConversationOwns(doc, uid) == TRUE

\* conversation(), up to the response (conversation.py lines 131-165): the
\* message and user_id checks, get_session, touch_session; without a
\* session_id, create_session is called with keywords it does not take and
\* raises TypeError, which the server answers with 500.
Conversation ==
  /\ request.route = "conversation"
  /\ request.stage = "received"
  /\ LET found == get_session(collection, request.session_id) IN
       IF IsBlank(request.message)
         THEN Reject(400)
       ELSE IF IsBlank(request.user_id)
         THEN Reject(400)
       ELSE IF ~Truthy(request.session_id)
         THEN Reject(500)
       ELSE IF ~(Found(found) /\ ConversationOwns(found, Text(request.user_id)))
         THEN Reject(404)
       ELSE /\ collection' = touch_update(collection, found.session_id, clock)
            /\ path' = IF request.stream THEN "api_stream" ELSE "api_invoke"
            /\ session' = [session_id |-> found.session_id, thread_id |-> found.thread_id]
            /\ message' = Text(request.message)
            /\ response' = 200
            /\ request' = [request EXCEPT !.stage = "accepted"]
            /\ UNCHANGED <<clock, issued>>
  /\ UNCHANGED <<streamVars, callerVars, otherVars>>

\* send_message(), the session lookup and ownership check (chat.py lines
\* 202-207).
SendMessageLookup ==
  /\ request.route = "send_message"
  /\ request.stage = "received"
  /\ LET found == get_session(collection, request.session_id) IN
       IF ~Found(found) \/ found.user_id # Text(request.user_id)
         THEN Reject(404)
         ELSE /\ session' = [session_id |-> found.session_id, thread_id |-> found.thread_id]
              /\ request' = [request EXCEPT !.stage = "body"]
              /\ UNCHANGED <<collection, clock, issued, response, path, message>>
  /\ UNCHANGED <<streamVars, callerVars, otherVars>>

\* send_message(), after `await request.json()`: the message is stripped and
\* tested, the session touched, the streaming response returned (lines
\* 209-222, 293-301).
SendMessageBody ==
  /\ request.route = "send_message"
  /\ request.stage = "body"
  /\ IF IsBlank(request.message)
       THEN Reject(400)
       ELSE /\ collection' = touch_update(collection, request.session_id, clock)
            /\ path' = "web"
            /\ message' = Text(strip(request.message))
            /\ response' = 200
            /\ request' = [request EXCEPT !.stage = "accepted"]
            /\ UNCHANGED <<clock, issued, session>>
  /\ UNCHANGED <<streamVars, callerVars, otherVars>>

\* DELETE /conversation/session/{sid} for a stored session: nothing but
\* session_service.delete_session(sid) (conversation.py lines 236-247,
\* session_service.py lines 191-192).
ApiDeleteSession(sid) ==
  /\ Found(get_session(collection, sid))
  /\ collection' = delete_one(collection, sid)
  /\ deleted' = deleted \cup {sid}
  /\ UNCHANGED <<clock, issued, request, response, worker, ncalls>>
  /\ UNCHANGED <<path, session, message, streamVars, otherVars>>

\* No turn has been asked for; the store is empty.
InitRequests ==
  /\ path = "none"
  /\ session = to_session("")
  /\ message = ""
  /\ InitTurn
  /\ clock = 0
  /\ collection = {}
  /\ issued = {}
  /\ request = NoRequest
  /\ response = 0
  /\ worker = [w \in Workers |-> Idle]
  /\ deleted = {}
  /\ ncalls = 0
  /\ InitOther

\* One turn request against a store that the web session route has filled;
\* of an accepted turn, the steps up to its first calls of the generator.
NextRequests ==
  \/ ClockTick
  \/ \E u \in Users, sid \in SessionIds : WebCreateSession(u, sid)
  \/ \E req \in ConversationRequests \cup SendMessageRequests : Receive(req)
  \/ Conversation
  \/ SendMessageLookup
  \/ SendMessageBody
  \/ \E sid \in SessionIds : ApiDeleteSession(sid)
  \/ EventGenStart
  \/ EventGenInvoke
  \/ \E f \in Frags : EventGenChunk(f)
  \/ EventGenNext
  \/ EventGenDone
  \/ \E m \in ErrMsgs : EventGenError(m)
  \/ EventGenFinish
  \/ ConversationInvoke
  \/ \E text \in Frags : ConversationReturn(text)
  \/ \E m \in ErrMsgs : ConversationRaise(m)
  \/ GenerateStart
  \/ StreamAgentStart

SpecRequests == InitRequests /\ [][NextRequests]_vars

\* ------------------------- SessionService under concurrent callers
\* What a SessionService call leaves alone: the turn and its request.
outsideVars == <<request, response, path, session, message, streamVars, otherVars>>

\* Variant: the sessions are sorted by updated_at ascending.
list_user_sessions_ascending(coll, uid) ==
  LET docs == {d \in coll : d.user_id = uid}
      n == Cardinality(docs)
  IN {l \in [1..n -> docs] :
        /\ \A i, j \in 1..n : i # j => l[i] # l[j]
        /\ \A i \in 1..(n - 1) : l[i].updated_at <= l[i + 1].updated_at}

\* find({"user_id": uid}).sort("updated_at", -1) (lines 126-130): the user's
\* documents, newest first; documents with equal updated_at in any order.
list_user_sessions(coll, uid) ==
  LET docs == {d \in coll : d.user_id = uid}
      n == Cardinality(docs)
  IN {l \in [1..n -> docs] :
        /\ \A i, j \in 1..n : i # j => l[i] # l[j]
        /\ \A i \in 1..(n - 1) : l[i].updated_at >= l[i + 1].updated_at}

\* The calls the callers make.
ServiceCalls ==
  [op : {"create_session"}, sid : {""}, uid : Users, name : {""}]
    \cup [op : {"get_session", "get_session_by_thread", "touch_session", "delete_session"},
          sid : SessionIds, uid : {""}, name : {""}]
    \cup [op : {"update_session_name"}, sid : SessionIds, uid : {""}, name : Names \ {""}]
    \cup [op : {"list_user_sessions", "get_or_create_default_session"},
          sid : {""}, uid : Users, name : {""}]

\* Where each method starts.
FirstPc(op) ==
  CASE op = "create_session" -> "to_session"
    [] op \in {"touch_session", "update_session_name"} -> "utc_now"
    [] op = "delete_session" -> "delete"
    [] op = "get_or_create_default_session" -> "list"
    [] OTHER -> "find"

\* Callers that will still ask generate_session_id for an id.
Creating == {w \in Workers : worker[w].pc \in {"to_session", "list"}}

\* The ids create_session has returned to a caller: only these can be named
\* in a later call.
Known == issued \ {worker[w].result.session_id : w \in {v \in Workers : worker[v].pc = "insert"}}

\* Caller w enters a SessionService method. A call that may create a session
\* is made while an id is left for it, or, for the default session, while
\* the user has a session.
Call(w, c) ==
  /\ worker[w].pc = "idle"
  /\ ncalls < MaxCalls
  /\ c.sid # "" => c.sid \in Known
  /\ FirstPc(c.op) \in {"to_session", "list"} =>
       \/ Cardinality(issued) + Cardinality(Creating) < Cardinality(SessionIds)
       \/ FirstPc(c.op) = "list" /\ \E d \in collection : d.user_id = c.uid
  /\ worker' = [worker EXCEPT ![w] =
                  [Idle EXCEPT !.op = c.op, !.pc = FirstPc(c.op), !.sid = c.sid,
                               !.uid = c.uid, !.name = c.name]]
  /\ ncalls' = ncalls + 1
  /\ UNCHANGED <<collection, clock, issued, deleted, outsideVars>>

\* `now = utc_now()` of touch_session / update_session_name (lines 142, 169).
UtcNow(w) ==
  /\ worker[w].pc = "utc_now"
  /\ worker' = [worker EXCEPT ![w].now = clock, ![w].pc = "update"]
  /\ UNCHANGED <<collection, clock, issued, deleted, ncalls, outsideVars>>

\* find_one_and_update(..., return_document=True) of touch_session /
\* update_session_name (lines 144-152, 171-179): one atomic store operation;
\* the call returns the updated model, or None.
FindOneAndUpdate(w) ==
  /\ worker[w].pc = "update"
  /\ collection' =
       IF worker[w].op = "update_session_name"
         THEN name_update(collection, worker[w].sid, worker[w].name, worker[w].now)
         ELSE touch_update(collection, worker[w].sid, worker[w].now)
  /\ worker' = [worker EXCEPT
                  ![w].pc = "idle",
                  ![w].now = Idle.now,
                  ![w].result = IF worker[w].op = "get_or_create_default_session"
                                  THEN @ ELSE get_session(collection', worker[w].sid)]
  /\ UNCHANGED <<clock, issued, deleted, ncalls, outsideVars>>

\* data.to_session() of create_session (line 68): a new id, the time.
ToSession(w) ==
  /\ worker[w].pc = "to_session"
  /\ \E sid \in SessionIds \ issued :
       /\ issued' = issued \cup {sid}
       /\ worker' = [worker EXCEPT
                       ![w].pc = "insert",
                       ![w].result = SessionCreate_to_session(worker[w].uid, worker[w].name,
                                                              sid, clock)]
  /\ UNCHANGED <<collection, clock, deleted, ncalls, outsideVars>>

\* insert_one(session.to_document()) of create_session (line 71); the
\* response is built with is_new=True (lines 75-83).
InsertOne(w) ==
  /\ worker[w].pc = "insert"
  /\ collection' = insert_one(collection, worker[w].result)
  /\ worker' = [worker EXCEPT ![w].pc = "idle", ![w].is_new = TRUE]
  /\ UNCHANGED <<clock, issued, deleted, ncalls, outsideVars>>

\* get_session, get_session_by_thread, list_user_sessions: one read.
Find(w) ==
  /\ worker[w].pc = "find"
  /\ \E l \in list_user_sessions(collection, worker[w].uid) :
       worker' = [worker EXCEPT
         ![w].pc = "idle",
         ![w].result = CASE worker[w].op = "get_session" ->
                              get_session(collection, worker[w].sid)
                         [] worker[w].op = "get_session_by_thread" ->
                              get_session_by_thread(collection, worker[w].sid)
                         [] OTHER -> @,
         ![w].listed = IF worker[w].op = "list_user_sessions" THEN l ELSE @]
  /\ UNCHANGED <<collection, clock, issued, deleted, ncalls, outsideVars>>

\* delete_session (lines 191-192): delete_one, True when a document went.
DeleteOne(w) ==
  /\ worker[w].pc = "delete"
  /\ collection' = delete_one(collection, worker[w].sid)
  /\ worker' = [worker EXCEPT ![w].pc = "idle", ![w].ok = (collection' # collection)]
  /\ deleted' = IF collection' # collection THEN deleted \cup {worker[w].sid} ELSE deleted
  /\ UNCHANGED <<clock, issued, ncalls, outsideVars>>

\* get_or_create_default_session (lines 213-230): the user's newest session
\* is touched, or a session is created when the user has none.
ListForDefault(w) ==
  /\ worker[w].pc = "list"
  /\ \E l \in list_user_sessions(collection, worker[w].uid) :
       worker' = [worker EXCEPT
         ![w].pc = IF l # <<>> THEN "utc_now" ELSE "to_session",
         ![w].sid = IF l # <<>> THEN l[1].session_id ELSE @,
         ![w].result = IF l # <<>> THEN l[1] ELSE @]
  /\ UNCHANGED <<collection, clock, issued, deleted, ncalls, outsideVars>>

NextSessions ==
  \/ ClockTick
  \/ \E w \in Workers, c \in ServiceCalls : Call(w, c)
  \/ \E w \in Workers : UtcNow(w)
  \/ \E w \in Workers : FindOneAndUpdate(w)
  \/ \E w \in Workers : ToSession(w)
  \/ \E w \in Workers : InsertOne(w)
  \/ \E w \in Workers : Find(w)
  \/ \E w \in Workers : DeleteOne(w)
  \/ \E w \in Workers : ListForDefault(w)

SpecSessions == InitRequests /\ [][NextSessions]_vars

\* ------------------------------------------- web: the session routes
\* Everything of a turn but its request and the persisted history.
flowVars == <<connected, sinceDisc, pc, cur, delivered, queue, done_event,
              agent_task, agentCancel, keepalive_task, kaCancel, stopAsked,
              rdTimer, kaTimer, genTimer, sendTimer, calls, yielded, outcome,
              raisedMsg, full_response>>

\* Variant: the routes test the session for existence only.
NotOwned_existsOnly(doc, u) == ~Found(doc)

\* `if not session or session.user_id != user.user_id`: the routes answer 404.
NotOwned(doc, u) == ~Found(doc) \/ doc.user_id # u

\* DELETE /web/chat/session/{sid} by user u (chat.py lines 89-119): lookup
\* and ownership check, deletion of the thread's history inside try/except,
\* session_service.delete_session, {"success": true}.
WebDeleteSession(u, sid, raises) ==
  /\ LET found == get_session(collection, sid) IN
       IF NotOwned(found, u)
         THEN /\ reply' = Answer("delete_session", sid, Found(found), 404, FALSE, <<>>)
              /\ UNCHANGED <<collection, deleted, history>>
       ELSE IF DeleteRaises(raises)
         THEN /\ reply' = Answer("delete_session", sid, TRUE, 500, FALSE, <<>>)
              /\ history' \in delete_thread(history, found.thread_id, raises)
              /\ UNCHANGED <<collection, deleted>>
       ELSE /\ history' \in delete_thread(history, found.thread_id, raises)
            /\ collection' = delete_one(collection, sid)
            /\ deleted' = deleted \cup {sid}
            /\ reply' = Answer("delete_session", sid, TRUE, 200, raises, <<>>)
  /\ UNCHANGED <<clock, issued, request, response, worker, ncalls>>
  /\ UNCHANGED <<path, session, message, flowVars, authVars, poolVars>>

\* PATCH /web/chat/session/{sid} by user u with body {"name": raw} (chat.py
\* lines 122-157): lookup and ownership check, the name stripped and tested,
\* update_session_name.
WebRenameSession(u, sid, raw) ==
  /\ LET found == get_session(collection, sid) IN
       IF NotOwned(found, u)
         THEN /\ reply' = Answer("rename_session", sid, Found(found), 404, FALSE, <<>>)
              /\ UNCHANGED collection
       ELSE IF IsBlank(raw)
         THEN /\ reply' = Answer("rename_session", sid, TRUE, 400, FALSE, <<>>)
              /\ UNCHANGED collection
       ELSE /\ collection' = name_update(collection, sid, Text(strip(raw)), clock)
            /\ reply' = Answer("rename_session", sid, TRUE, 200, FALSE, <<>>)
  /\ UNCHANGED <<clock, issued, request, response, callerVars>>
  /\ UNCHANGED <<path, session, message, flowVars, history, authVars, poolVars>>

\* GET /web/chat/session/{sid}/messages by user u (chat.py lines 160-186):
\* lookup and ownership check, agent.get_history(session.thread_id); an
\* exception out of get_history would be answered with 500.
WebGetSessionMessages(u, sid, fails) ==
  /\ LET found == get_session(collection, sid)
         got   == get_history(history, found.thread_id, fails)
     IN
       IF NotOwned(found, u)
         THEN reply' = Answer("get_session_messages", sid, Found(found), 404, FALSE, <<>>)
       ELSE IF got.raised
         THEN reply' = Answer("get_session_messages", sid, TRUE, 500, FALSE, <<>>)
       ELSE reply' = Answer("get_session_messages", sid, TRUE, 200, fails, got.value)
  /\ UNCHANGED <<collection, clock, issued, request, response, callerVars>>
  /\ UNCHANGED <<path, session, message, flowVars, history, authVars, poolVars>>

\* The send_message requests of user u1 with a padded message, for each
\* session id (the sessions are u1's or u2's).
WebTurnRequests ==
  {req \in SendMessageRequests : req.user_id = <<"u1">> /\ req.message = <<" ", "hi">>}

\* The web session routes of two users, around one send_message turn taken
\* up to the first call of the generator.
NextWeb ==
  \/ ClockTick
  \/ \E u \in Users, sid \in SessionIds : WebCreateSession(u, sid)
  \/ \E req \in WebTurnRequests : Receive(req)
  \/ SendMessageLookup
  \/ SendMessageBody
  \/ GenerateStart
  \/ StreamAgentStart
  \/ \E u \in Users, sid \in SessionIds, raises \in BOOLEAN : WebDeleteSession(u, sid, raises)
  \/ \E u \in Users, sid \in SessionIds, raw \in RawNames : WebRenameSession(u, sid, raw)
  \/ \E u \in Users, sid \in SessionIds, fails \in BOOLEAN : WebGetSessionMessages(u, sid, fails)

SpecWeb == InitRequests /\ [][NextWeb]_vars

\* ------------------------------------------------------ web: AuthService
\* Emails as typed: characters as tokens, upper case and padding included.
RawEmails == {<<"a@x">>, <<" ", "A@X">>, <<"b@x">>}
Passwords == {"p", "q"}
UserIds == {"x1", "x2"}
Tokens == {"t1", "t2"}

\* secrets.token_hex / secrets.token_urlsafe: a value not in use; which one
\* is of no consequence.
Fresh(pool, used) == CHOOSE x \in pool \ used : TRUE

\* str.lower().
lower(t) == [i \in 1..Len(t) |-> IF t[i] = "A@X" THEN "a@x" ELSE t[i]]

\* Variant: the email is trimmed but keeps its case.
normal_email_cased(raw) == strip(raw)

\* `email.lower().strip()` (lines 63, 73, 96).
normal_email(raw) == strip(lower(raw))

\* hashlib.sha256(password.encode()).hexdigest() (lines 45-47).
hash_password(p) == "sha256:" \o p

\* The user document register stores (lines 70-78); its two timestamps play
\* no part in any call and are left out.
UserDoc(id, name, raw, p) ==
  [user_id |-> id, name |-> strip(name), email |-> normal_email(raw),
   password |-> hash_password(p)]

\* The auth session document login stores (lines 111-116), without its
\* created_at.
AuthSession(t, uid, now) == [token |-> t, user_id |-> uid, expires_at |-> now + TOKEN_DAYS]

\* Variant: the session is looked up by its token alone.
get_user_by_token_unexpiring(sessions, us, t, now) ==
  LET live  == {d \in sessions : d.token = t}
      found == {u \in us : \E d \in live : u.user_id = d.user_id}
  IN IF found = {} THEN "None" ELSE (CHOOSE u \in found : TRUE).user_id

\* get_user_by_token (lines 120-141): the session with this token whose
\* expires_at is after now, then the user of that session; None without.
get_user_by_token(sessions, us, t, now) ==
  LET live  == {d \in sessions : d.token = t /\ d.expires_at > now}
      found == {u \in us : \E d \in live : u.user_id = d.user_id}
  IN IF found = {} THEN "None" ELSE (CHOOSE u \in found : TRUE).user_id

\* What an AuthService call returned.
AuthReply(op, arg, value) == [op |-> op, arg |-> arg, value |-> value]

\* A week passes on the wall clock.
WeekPasses ==
  /\ clock < MaxWeeks * TOKEN_DAYS
  /\ clock' = clock + TOKEN_DAYS
  /\ UNCHANGED <<collection, issued, request, response, callerVars>>
  /\ UNCHANGED <<path, session, message, streamVars, reply, authVars, poolVars>>

\* register(name, email, password) (lines 49-87): None when a user with the
\* normalised email is stored, else a user under a new id.
Register(raw, p) ==
  /\ IF \E u \in users : u.email = normal_email(raw)
       THEN /\ authReply' = AuthReply("register", raw, "None")
            /\ UNCHANGED users
       ELSE LET id == Fresh(UserIds, {u.user_id : u \in users}) IN
              /\ UserIds \ {u.user_id : u \in users} # {}
              /\ users' = users \cup {UserDoc(id, <<"Ann", " ">>, raw, p)}
              /\ authReply' = AuthReply("register", raw, id)
  /\ UNCHANGED <<auth_sessions, tokens, loggedOut>>
  /\ UNCHANGED <<collection, clock, issued, request, response, callerVars>>
  /\ UNCHANGED <<path, session, message, streamVars, reply, poolVars>>

\* The strings that have been issued or presented as tokens: a token that
\* secrets.token_urlsafe(32) returns is none of them.
Seen == {i.token : i \in tokens} \cup loggedOut

\* login(email, password) (lines 89-118): None for an unknown email or a
\* wrong password, else a new token stored with its expiry.
Login(raw, p) ==
  /\ LET found == {u \in users : u.email = normal_email(raw)} IN
       IF found = {} \/ \A u \in found : u.password # hash_password(p)
         THEN /\ authReply' = AuthReply("login", raw, "None")
              /\ UNCHANGED <<auth_sessions, tokens>>
         ELSE LET t == Fresh(Tokens, Seen) IN
              \E u \in found :
                /\ Tokens \ Seen # {}
                /\ auth_sessions' = auth_sessions \cup {AuthSession(t, u.user_id, clock)}
                /\ tokens' = tokens \cup {[token |-> t, user_id |-> u.user_id, at |-> clock]}
                /\ authReply' = AuthReply("login", raw, t)
  /\ UNCHANGED <<users, loggedOut>>
  /\ UNCHANGED <<collection, clock, issued, request, response, callerVars>>
  /\ UNCHANGED <<path, session, message, streamVars, reply, poolVars>>

\* get_user_by_token(token), for any string presented as a token.
GetUserByToken(t) ==
  /\ authReply' = AuthReply("get_user_by_token", <<t>>,
                            get_user_by_token(auth_sessions, users, t, clock))
  /\ UNCHANGED <<users, auth_sessions, tokens, loggedOut>>
  /\ UNCHANGED <<collection, clock, issued, request, response, callerVars>>
  /\ UNCHANGED <<path, session, message, streamVars, reply, poolVars>>

\* logout(token) (lines 143-146): delete_one({"token": token}).
Logout(t) ==
  /\ auth_sessions' = auth_sessions \ {d \in auth_sessions : d.token = t}
  /\ loggedOut' = loggedOut \cup {t}
  /\ authReply' = AuthReply("logout", <<t>>,
                            IF auth_sessions' # auth_sessions THEN "True" ELSE "False")
  /\ UNCHANGED <<users, tokens>>
  /\ UNCHANGED <<collection, clock, issued, request, response, callerVars>>
  /\ UNCHANGED <<path, session, message, streamVars, reply, poolVars>>

\* The AuthService calls of the auth routes, one at a time, while time passes.
NextAuth ==
  \/ WeekPasses
  \/ \E raw \in RawEmails, p \in Passwords : Register(raw, p)
  \/ \E raw \in RawEmails, p \in Passwords : Login(raw, p)
  \/ \E t \in Tokens : GetUserByToken(t)
  \/ \E t \in Tokens : Logout(t)

SpecAuth == InitRequests /\ [][NextAuth]_vars

\* ------------------------------------------------- shared: MongoDBPool
\* What a MongoDBPool call returned, or that it raised: the client, or for
\* get_database the database db of that client.
PoolReply(op, db, raised, value) ==
  [op |-> op, db |-> db, raised |-> raised, value |-> value]

\* Variant: connect constructs a client on every call.
connect_always(c, n, ok) ==
  [client |-> n + 1, constructed |-> n + 1, pinged |-> TRUE,
   raised |-> ~ok, value |-> IF ok THEN n + 1 ELSE NoClient]

\* connect(uri) (lines 21-37) on a pool that holds c after n constructions,
\* with a server that answers the ping or not: without a client one is
\* constructed, assigned to _client and then pinged; the exception of the ping
\* leaves connect after the assignment. With a client nothing is constructed
\* or pinged.
connect(c, n, ok) ==
  IF c = NoClient
    THEN [client |-> n + 1, constructed |-> n + 1, pinged |-> TRUE,
          raised |-> ~ok, value |-> IF ok THEN n + 1 ELSE NoClient]
    ELSE [client |-> c, constructed |-> n, pinged |-> FALSE,
          raised |-> FALSE, value |-> c]

\* The databases asked for.
DbNames == {"langchain", "test"}

\* A call of op reaches the client through connect; db is the database it
\* asks for, "" for the client itself.
Reach(op, db, ok) ==
  LET got == connect(client, constructed, ok) IN
    /\ got.constructed <= MaxClients
    /\ client' = got.client
    /\ constructed' = got.constructed
    /\ verified' = IF got.pinged /\ ok THEN verified \cup {got.client} ELSE verified
    /\ poolReply' = PoolReply(op, db, got.raised, got.value)

\* mongo_pool.connect(uri) (lines 21-37).
Connect(ok) ==
  /\ Reach("connect", "", ok)
  /\ UNCHANGED released
  /\ UNCHANGED <<collection, clock, issued, request, response, callerVars>>
  /\ UNCHANGED <<path, session, message, streamVars, reply, authVars>>

\* mongo_pool.get_database(name) (lines 39-43): connects when no client is
\* held, then returns the database of that name of the client held.
GetDatabase(db, ok) ==
  /\ Reach("get_database", db, ok)
  /\ UNCHANGED released
  /\ UNCHANGED <<collection, clock, issued, request, response, callerVars>>
  /\ UNCHANGED <<path, session, message, streamVars, reply, authVars>>

\* mongo_pool.client (lines 56-61): connects when no client is held.
Client(ok) ==
  /\ Reach("client", "", ok)
  /\ UNCHANGED released
  /\ UNCHANGED <<collection, clock, issued, request, response, callerVars>>
  /\ UNCHANGED <<path, session, message, streamVars, reply, authVars>>

\* mongo_pool.close() (lines 50-54): the client held is closed and dropped.
Close ==
  /\ released' = IF client # NoClient THEN released \cup {client} ELSE released
  /\ client' = NoClient
  /\ poolReply' = PoolReply("close", "", FALSE, NoClient)
  /\ UNCHANGED <<constructed, verified>>
  /\ UNCHANGED <<collection, clock, issued, request, response, callerVars>>
  /\ UNCHANGED <<path, session, message, streamVars, reply, authVars>>

\* The calls made on the pool, one at a time, against a server that may or
\* may not answer.
NextPool ==
  \/ \E ok \in BOOLEAN : Connect(ok)
  \/ \E db \in DbNames, ok \in BOOLEAN : GetDatabase(db, ok)
  \/ \E ok \in BOOLEAN : Client(ok)
  \/ Close

SpecPool == InitRequests /\ [][NextPool]_vars

\* ------------------------------------------------- reading the delivery
IsPrefix(s, t) == Len(s) <= Len(t) /\ \A i \in 1..Len(s) : s[i] = t[i]

IsTerminalLine(l) == l.kind \in {"data", "event"} /\ l.key \in {"done", "error"}
TerminalIdx == {i \in 1..Len(delivered) : IsTerminalLine(delivered[i])}
TerminalDelivered == TerminalIdx # {}

IsLogical(l) == l.kind # "comment"
Logical == SelectSeq(delivered, IsLogical)

IsChunkLine(l) == l.kind = "data" /\ l.key = "chunk"
ChunkVals == [i \in 1..Len(SelectSeq(delivered, IsChunkLine)) |->
                SelectSeq(delivered, IsChunkLine)[i].val]

KeepaliveDelivered == \E i \in 1..Len(delivered) : delivered[i] = KeepaliveLine

Streaming == path \in {"web", "api_stream"}

\* The logical items a failed streaming turn is expected to deliver.
ExpectedOnFailure ==
  IF path = "web"
    THEN [i \in 1..Len(yielded) |-> DataLine(ChunkItem(yielded[i]))]
           \o <<DataLine(ErrorItem(raisedMsg))>>
    ELSE <<SessionEvent>>
           \o [i \in 1..Len(yielded) |-> Event("message", yielded[i])]
           \o <<Event("error", raisedMsg)>>

\* ---------------------------------------------------------------- claims

\* C1: in the web turn at most one terminal data item (done or error) is ever
\* delivered and no data item follows it; when generate() has finished with
\* the client still connected, exactly one has been delivered.
C1_OneTerminalLast ==
  path = "web" =>
    /\ Cardinality(TerminalIdx) <= 1
    /\ \A i \in TerminalIdx : \A j \in (i + 1)..Len(delivered) : delivered[j].kind # "data"
    /\ (pc = "returned" /\ connected => Cardinality(TerminalIdx) = 1)

C1_Witness ==
  /\ path = "web" /\ pc = "returned" /\ connected
  /\ Len(yielded) = MaxFrags
  /\ KeepaliveDelivered
  /\ Cardinality(TerminalIdx) = 1

\* C2: once a terminal item (done, or error with any text) has been yielded
\* by generate(), it is the last thing yielded and the consumer loop does not
\* wait on the queue again.
C2_NothingAfterTerminal ==
  path = "web" =>
    \A i \in TerminalIdx :
      /\ i = Len(delivered)
      /\ pc \in {"yield_data", "join_keepalive", "join_agent", "returned"}

\* C3: when a turn has completed with the client connected, the history of
\* the session's thread contains the user's message and the history of every
\* other thread is unchanged (empty, as at the start).
C3_SubmittedUnderThread ==
  (pc = "returned" /\ connected) =>
    /\ \E i \in 1..Len(history[session.thread_id]) :
         history[session.thread_id][i] = [role |-> "user", content |-> message]
    /\ \A k \in ThreadKeys \ {session.thread_id} : history[k] = <<>>

\* C4: when the generator has raised in a streaming turn, the logical items
\* delivered are a prefix of: the fragments yielded, in order, then one error
\* carrying the exception's message; and they are all of it once the handler
\* has finished with the client connected.  No done and no later fragment.
C4_FragmentsThenError ==
  (Streaming /\ outcome = "raised") =>
    /\ IsPrefix(Logical, ExpectedOnFailure)
    /\ (pc = "returned" /\ connected => Logical = ExpectedOnFailure)

C4_Witness ==
  /\ Streaming /\ outcome = "raised" /\ pc = "returned" /\ connected
  /\ Len(yielded) >= 1
  /\ Logical = ExpectedOnFailure

\* C5: when generate() has finished, both tasks have completed, and from then
\* on nothing is enqueued, the generator is not advanced or invoked.
C5_NoTaskOutlivesGenerate ==
  /\ [](path = "web" /\ pc = "returned" => agent_task = "done" /\ keepalive_task = "done")
  /\ [][path = "web" /\ pc = "returned" =>
          UNCHANGED <<queue, yielded, calls, done_event, outcome>>]_vars

C5_Witness ==
  /\ path = "web" /\ pc = "returned" /\ ~connected
  /\ agent_task = "done" /\ keepalive_task = "done"
  /\ outcome = "returned"

\* C6: while generate() waits for the producer in its cleanup, the keepalive
\* task has been cancelled and has finished, and the producer has been told to
\* stop (or has already finished).
C6_KeepaliveThenProducerStopped ==
  (path = "web" /\ pc = "join_agent") =>
    /\ "keepalive" \in stopAsked
    /\ keepalive_task = "done"
    /\ (agent_task = "done" \/ agentCancel \/ "agent" \in stopAsked)

\* C7: after a disconnect that came before any fragment was delivered,
\* nothing more is delivered, and once more than two idle intervals have
\* passed both tasks have ended.
C7_CancelledWithinTwoIntervals ==
  /\ [][path = "web" /\ ~connected => delivered' = delivered]_vars
  /\ [](path = "web" /\ ~connected /\ ChunkVals = <<>>
          /\ sinceDisc > 2 * SSE_KEEPALIVE_INTERVAL
        => keepalive_task = "done" /\ agent_task = "done")

\* C8: with a client that stays connected and a generator that returns or
\* raises, generate() eventually has delivered a terminal item and returned.
C8_TurnTerminates ==
  <>(connected /\ pc = "returned" /\ TerminalDelivered)

C8_Witness ==
  /\ path = "web" /\ pc = "returned" /\ connected /\ TerminalDelivered
  /\ outcome = "raised" /\ raisedMsg = ""
  /\ delivered[Len(delivered)] = KeepaliveLine

\* C9: a streaming turn calls agent.stream at most once.
C9_StreamCalledAtMostOnce ==
  Streaming => Cardinality({i \in 1..Len(calls) : calls[i].op = "stream"}) <= 1

C9_Witness ==
  /\ path = "web" /\ pc = "returned" /\ ~connected
  /\ Len(calls) = 1
  /\ KeepaliveDelivered

\* C10: the chunk items delivered by generate() are always a prefix of the
\* fragments the generator yielded, and are all of them once a terminal item
\* has been delivered or generate() has finished with the client connected.
C10_ChunksAreTheFragments ==
  path = "web" =>
    /\ IsPrefix(ChunkVals, yielded)
    /\ (TerminalDelivered \/ (pc = "returned" /\ connected) => ChunkVals = yielded)

C10_Witness ==
  /\ path = "web" /\ TerminalDelivered
  /\ Len(yielded) = MaxFrags /\ yielded[1] # yielded[2]
  /\ ChunkVals = yielded
  /\ \E i \in 1..Len(delivered) - 1 :
       delivered[i] = KeepaliveLine /\ IsChunkLine(delivered[i + 1])

\* The chunk values of the message events among the first n delivered events.
IsMessageEvent(l) == l.kind = "event" /\ l.key = "message"
MessageVals(n) ==
  [i \in 1..Len(SelectSeq(SubSeq(delivered, 1, n), IsMessageEvent)) |->
     SelectSeq(SubSeq(delivered, 1, n), IsMessageEvent)[i].val]
DoneEventIdx == {i \in 1..Len(delivered) :
                   delivered[i].kind = "event" /\ delivered[i].key = "done"}

\* C11: in the streaming POST /conversation turn, every done event carries as
\* full_response the concatenation, in emission order, of the chunk values of
\* the message events emitted before it.
C11_DoneIsConcatOfMessages ==
  path = "api_stream" =>
    \A i \in DoneEventIdx : delivered[i].val = Concat(MessageVals(i - 1))

C11_Witness ==
  /\ path = "api_stream"
  /\ DoneEventIdx # {}
  /\ Len(MessageVals(Len(delivered))) = MaxFrags
  /\ MessageVals(Len(delivered))[1] # MessageVals(Len(delivered))[MaxFrags]

\* Seconds since stream_agent put its latest fragment on the queue, while the
\* response generator is being awaited for the next one.
SinceLastFragment == MaxLatency - genTimer

\* C12: the keepalive task of generate() puts a keepalive marker only when no
\* fragment was emitted during the interval that has just elapsed: a ticker
\* interval within which a fragment was emitted produces no keepalive.
C12_KeepaliveOnlyWhenIdle ==
  [][(path = "web" /\ queue' = Append(queue, NoneItem))
       => ~(/\ yielded # <<>>
            /\ agent_task = "streaming"
            /\ genTimer # Off
            /\ SinceLastFragment < SSE_KEEPALIVE_INTERVAL)]_vars

\* The response generator has produced nothing since stream_agent called it.
SilentSinceStart ==
  /\ path = "web"
  /\ agent_task = "streaming"
  /\ yielded = <<>>
  /\ outcome = "none"
  /\ genTimer # Off

\* Seconds the response generator has been silent for since the start.
SilentFor == MaxLatency - genTimer

\* C13: when, with the client connected, the response generator has been
\* silent since the start of the turn for longer than the keepalive interval,
\* generate() has delivered a keepalive marker and no logical item yet: the
\* first logical item comes after at least one keepalive.
C13_KeepaliveBeforeLateFirstItem ==
  (SilentSinceStart /\ connected /\ SilentFor > SSE_KEEPALIVE_INTERVAL)
    => (KeepaliveDelivered /\ Logical = <<>>)

C13_Witness ==
  /\ SilentSinceStart /\ connected
  /\ SilentFor > SSE_KEEPALIVE_INTERVAL
  /\ delivered = <<KeepaliveLine>>

\* ------------------------------------------------- claims on the requests
\* The handler is deciding on the request in this step.
Deciding == request.stage \in {"received", "body"} /\ request' # request

\* The handler looks the session of the request up in this step.
LooksUp == request.stage = "received" /\ request' # request

\* Nothing of a turn has happened: no response generator was called, no
\* stream was opened, no task was created.
NoTurn ==
  /\ path = "none"
  /\ calls = <<>>
  /\ delivered = <<>>
  /\ pc = "init"
  /\ agent_task = "none"

\* The request names a session that is not stored, or whose owner is not the
\* requesting user.
NamesForeignSession(req, coll) ==
  /\ req.session_id # ""
  /\ \A d \in coll : d.session_id = req.session_id => d.user_id # Text(req.user_id)

\* C14: a turn request (POST /conversation or web send_message) that names a
\* session which does not exist or is not owned by the requesting user is
\* rejected before streaming starts: no session document changes, the
\* response generator is never invoked and no stream is opened.
C14_ForeignSessionRejected ==
  /\ [][(LooksUp /\ NamesForeignSession(request, collection))
          => (request'.stage = "rejected" /\ collection' = collection)]_vars
  /\ [](request.stage = "rejected" => NoTurn)

\* The request's message is empty once trimmed or, for POST /conversation, its
\* user id is.
BlankRequest(req) ==
  \/ Text(strip(req.message)) = ""
  \/ req.route = "conversation" /\ Text(strip(req.user_id)) = ""

\* C15 as stated: a turn request whose message is empty after trimming, or
\* (POST /conversation) whose user id is, is answered 400 and has no effect:
\* no session is created or touched, the generator is not invoked and no
\* stream is opened.
C15_BlankRejectedWith400 ==
  /\ [][(Deciding /\ BlankRequest(request))
          => /\ request'.stage \in {"rejected", "body"}
             /\ request'.stage = "rejected" => response' = 400
             /\ collection' = collection /\ issued' = issued]_vars
  /\ []((request # NoRequest /\ BlankRequest(request)) => NoTurn)

\* C15, amended: such a request fails synchronously before any effect, with
\* 400, or on the web path with 404 when the session it names is unknown or
\* not the user's, which send_message tests first.
C15_BlankRejectedNoEffect ==
  /\ [][(Deciding /\ BlankRequest(request))
          => /\ request'.stage \in {"rejected", "body"}
             /\ request'.stage = "rejected" =>
                  \/ response' = 400
                  \/ /\ response' = 404
                     /\ request.route = "send_message"
                     /\ NamesForeignSession(request, collection)
             /\ request'.stage = "body" => response' = 0
             /\ collection' = collection /\ issued' = issued]_vars
  /\ []((request # NoRequest /\ BlankRequest(request)) => NoTurn)

\* A blank message has been refused with 400 on each route while the session
\* it names is stored, owned by the user and older than the clock.
C15_Witness ==
  /\ request.stage = "rejected" /\ response = 400
  /\ Text(request.message) # "" /\ Text(strip(request.message)) = ""
  /\ \E d \in collection :
       /\ d.session_id = request.session_id
       /\ d.user_id = Text(request.user_id)
       /\ d.updated_at < clock

\* C16: in a streaming POST /conversation turn the first event delivered is
\* the session event, carrying the session_id, thread_id and user_id of the
\* session the request was resolved to; there is exactly one session event,
\* so it precedes every message, done and error event.
C16_SessionEventFirst ==
  (path = "api_stream" /\ delivered # <<>>) =>
    /\ delivered[1].kind = "event" /\ delivered[1].key = "session"
    /\ \A d \in collection :
         d.session_id = session.session_id =>
           delivered[1].val = SessionData(d.session_id, d.thread_id, d.user_id)
    /\ \A i \in 2..Len(delivered) : delivered[i].key # "session"

\* ------------------------------------------- claims on the SessionService
\* C17: the stored updated_at of a session never decreases, whatever
\* touch_session and update_session_name calls are made, concurrent calls
\* whose clock reads and store writes interleave included.
C17_UpdatedAtNeverDecreases ==
  [][\A d \in collection : \A e \in collection' :
       e.session_id = d.session_id => e.updated_at >= d.updated_at]_vars

\* Caller w completes the store update of touch_session or
\* update_session_name in this step.
Updates(w) ==
  /\ worker[w].op \in {"touch_session", "update_session_name"}
  /\ worker[w].pc = "update"
  /\ worker'[w].pc = "idle"

\* C18: once delete_session(id) has returned True, get_session(id) and
\* get_session_by_thread(id) find nothing, no list_user_sessions result
\* contains id, and a touch_session or update_session_name of id returns None
\* and stores nothing.
C18_DeletedIsTerminal ==
  /\ [](\A id \in deleted :
          /\ get_session(collection, id) = NoSession
          /\ get_session_by_thread(collection, id) = NoSession
          /\ \A u \in Users : \A l \in list_user_sessions(collection, u) :
               \A i \in 1..Len(l) : l[i].session_id # id)
  /\ [][\A w \in Workers :
          (Updates(w) /\ worker[w].sid \in deleted)
            => (worker'[w].result = NoSession /\ collection' = collection)]_vars

\* A session was deleted and a touch of its id has since returned None.
C18_Witness ==
  /\ deleted # {}
  /\ \E w \in Workers :
       /\ worker[w].op = "touch_session" /\ worker[w].pc = "idle"
       /\ worker[w].sid \in deleted
       /\ worker[w].result = NoSession

\* C19: every stored session has thread_id = session_id, as created, and no
\* step of touch_session, update_session_name or
\* get_or_create_default_session changes the thread_id of a stored session.
C19_ThreadIdFixed ==
  /\ [](\A d \in collection : d.thread_id = d.session_id)
  /\ [][\A d \in collection : \A e \in collection' :
          e.session_id = d.session_id => e.thread_id = d.thread_id]_vars

\* A session has been renamed and then touched by
\* get_or_create_default_session.
C19_Witness ==
  \E d \in collection : \E w \in Workers :
    /\ d.name = "trip"
    /\ d.updated_at > d.created_at
    /\ worker[w].op = "get_or_create_default_session"
    /\ worker[w].pc = "idle"
    /\ worker[w].sid = d.session_id

\* C20: a DELETE /conversation/session/{id} that deletes the session also
\* deletes the persisted history of the session's thread: once it has
\* succeeded, no history remains under that thread.
C20_ApiDeleteClearsHistory ==
  [][\A sid \in SessionIds :
       ApiDeleteSession(sid) => history'[get_session(collection, sid).thread_id] = <<>>]_vars

\* ---------------------------------------- claims on the web session routes
\* C21: in the web delete_session handler, a failure of the deletion of the
\* thread's history is logged and not propagated: the session's metadata is
\* still removed and the request answered with success.
C21_DeleteSurvivesHistoryFailure ==
  [][\A u \in Users, sid \in SessionIds :
       (/\ ~NotOwned(get_session(collection, sid), u)
        /\ reply'.route = "delete_session"
        /\ WebDeleteSession(u, sid, TRUE))
       => /\ ~Found(get_session(collection', sid))
          /\ reply'.status = 200
          /\ reply'.logged]_vars

\* The owner's delete has succeeded although the history deletion raised and
\* left the thread's history behind.
C21_Witness ==
  /\ reply.route = "delete_session"
  /\ reply.status = 200
  /\ reply.logged
  /\ ~Found(get_session(collection, reply.session_id))
  /\ history[reply.session_id] # <<>>

\* C22: get_history(thread_id) never raises: for every thread id it returns
\* the empty list when the thread has no checkpoint and when the checkpoint
\* read fails; the messages route is never answered with a server error.
C22_GetHistoryNeverRaises ==
  /\ \A tid \in ThreadKeys, fails \in BOOLEAN :
       LET got == get_history(history, tid, fails) IN
         /\ ~got.raised
         /\ (fails \/ history[tid] = <<>>) => got.value = <<>>
  /\ reply.route = "get_session_messages" => reply.status \in {200, 404}

\* The messages route has answered the owner with no messages after a failed
\* checkpoint read, while the thread has a history.
C22_Witness ==
  /\ reply.route = "get_session_messages"
  /\ reply.status = 200
  /\ reply.logged
  /\ reply.messages = <<>>
  /\ Found(get_session(collection, reply.session_id))
  /\ history[reply.session_id] # <<>>

\* The session sid is stored and its owner is not u.
OwnedByOther(coll, sid, u) ==
  Found(get_session(coll, sid)) /\ get_session(coll, sid).user_id # u

\* C28: every web chat operation on a session (delete_session,
\* rename_session, get_session_messages, send_message) requested by an
\* authenticated user who is not the session's owner is answered 404 and
\* changes nothing: the session documents (updated_at included) and the
\* histories stay as they are and the generator is not invoked. (A session
\* route that answers in a step answers about reply'.session_id.)
C28_NonOwnerGets404 ==
  /\ [][\A u \in Users, sid \in {reply'.session_id} \cap SessionIds :
          (/\ OwnedByOther(collection, sid, u)
           /\ \/ \E raises \in BOOLEAN : WebDeleteSession(u, sid, raises)
              \/ \E raw \in RawNames : WebRenameSession(u, sid, raw)
              \/ \E fails \in BOOLEAN : WebGetSessionMessages(u, sid, fails))
          => /\ reply'.status = 404
             /\ UNCHANGED <<collection, history, calls>>]_vars
  /\ [][(/\ LooksUp
         /\ request.route = "send_message"
         /\ OwnedByOther(collection, request.session_id, Text(request.user_id)))
        => /\ request'.stage = "rejected"
           /\ response' = 404
           /\ UNCHANGED <<collection, history, calls>>]_vars
  /\ [][(request'.stage = "rejected" /\ response' = 404) => NoTurn']_vars

\* A session route and a send_message turn have both been refused with 404
\* for sessions that are stored.
C28_Witness ==
  /\ reply.status = 404
  /\ reply.found
  /\ request.stage = "rejected"
  /\ response = 404
  /\ Found(get_session(collection, request.session_id))

\* --------------------------- claims on listing and the default session
\* The sessions of user uid in the store.
SessionsOf(coll, uid) == {d \in coll : d.user_id = uid}

\* Caller w is in a call of op and takes the step at pc.
Steps(w, op, at) ==
  /\ worker[w].op = op
  /\ worker[w].pc = at
  /\ worker'[w].pc # at

\* l holds exactly the sessions of uid, each once, newest first.
ListsNewestFirst(l, coll, uid) ==
  /\ Len(l) = Cardinality(SessionsOf(coll, uid))
  /\ {l[i] : i \in 1..Len(l)} = SessionsOf(coll, uid)
  /\ \A i \in 1..(Len(l) - 1) : l[i].updated_at >= l[i + 1].updated_at

\* C23: list_user_sessions(user_id) returns exactly the stored sessions of
\* user_id, each once, ordered by updated_at descending, and a session that
\* has just been touched is first in every listing of its owner.
C23_TouchedIsFirst ==
  [][\A w \in Workers :
       /\ Steps(w, "list_user_sessions", "find")
            => ListsNewestFirst(worker'[w].listed, collection, worker[w].uid)
       /\ (Steps(w, "touch_session", "update") /\ Found(worker'[w].result))
            => \A l \in list_user_sessions(collection', worker'[w].result.user_id) :
                 l[1].session_id = worker[w].sid]_vars

\* C24: get_or_create_default_session(user_id) picks the user's most recently
\* updated session whenever the user has one, touches it and returns it with
\* is_new false; otherwise it creates exactly one new session of the user and
\* returns it with is_new true.
C24_DefaultSessionChoice ==
  [][\A w \in Workers :
       LET docs == SessionsOf(collection, worker[w].uid) IN
       /\ (Steps(w, "get_or_create_default_session", "list") /\ docs # {})
            => /\ worker'[w].pc = "utc_now"
               /\ worker'[w].result \in docs
               /\ worker'[w].sid = worker'[w].result.session_id
               /\ \A d \in docs : worker'[w].result.updated_at >= d.updated_at
       /\ (Steps(w, "get_or_create_default_session", "list") /\ docs = {})
            => worker'[w].pc = "to_session"
       /\ Steps(w, "get_or_create_default_session", "update")
            => /\ worker'[w].pc = "idle"
               /\ ~worker'[w].is_new
               /\ worker'[w].result = worker[w].result
               /\ \A d \in collection' :
                    d.session_id = worker[w].sid => d.updated_at = worker[w].now
               /\ {d.session_id : d \in collection'} = {d.session_id : d \in collection}
       /\ Steps(w, "get_or_create_default_session", "insert")
            => /\ worker'[w].pc = "idle"
               /\ worker'[w].is_new
               /\ worker'[w].result.user_id = worker[w].uid
               /\ worker'[w].result \notin collection
               /\ collection' = collection \cup {worker'[w].result}]_vars

\* A caller has got the newer of a user's two sessions, which is stored, with
\* is_new false.
C24_Witness ==
  \E w \in Workers :
    /\ worker[w].op = "get_or_create_default_session"
    /\ worker[w].pc = "idle"
    /\ ~worker[w].is_new
    /\ \E d \in collection :
         /\ d.session_id = worker[w].sid
         /\ d.session_id = worker[w].result.session_id
    /\ \E e \in collection :
         /\ e.user_id = worker[w].uid
         /\ e.session_id # worker[w].sid
         /\ e.updated_at < worker[w].result.updated_at

IssuedAs(t) == {i \in tokens : i.token = t}

\* t was issued by the login i, has not been passed to logout and is younger
\* than TOKEN_DAYS.
ValidFrom(t, i) ==
  /\ i \in IssuedAs(t)
  /\ t \notin loggedOut
  /\ clock < i.at + TOKEN_DAYS

\* get_user_by_token answers for valid tokens, with the user who logged in,
\* and for no others.
TokensAnswered ==
  \A t \in Tokens :
    LET got == get_user_by_token(auth_sessions, users, t, clock) IN
      /\ got # "None" => \E i \in tokens : ValidFrom(t, i) /\ got = i.user_id
      /\ \A i \in tokens : ValidFrom(t, i) => got = i.user_id

\* C25: get_user_by_token(t) returns a user only if t was issued by a
\* successful login, has not been passed to logout and has not expired;
\* logout(t) invalidates t alone: the other tokens stay valid.
C25_OnlyValidTokens ==
  [][/\ TokensAnswered'
     /\ \A t \in Tokens :
          Logout(t) => \A d \in auth_sessions : d.token # t => d \in auth_sessions']_vars

\* A token has answered with its user after another token of the same user
\* was logged out.
C25_Witness ==
  /\ authReply.op = "get_user_by_token"
  /\ authReply.value # "None"
  /\ \E i, j \in tokens :
       /\ <<i.token>> = authReply.arg
       /\ j.token # i.token
       /\ j.user_id = i.user_id
       /\ j.token \in loggedOut

\* An email trimmed and lower-cased.
TrimmedLower(raw) == strip(lower(raw))

\* C26: register with an email that, trimmed and lower-cased, belongs to a
\* stored user returns None and inserts nothing; after any sequence of
\* register calls at most one user exists per normalised email.
C26_OneUserPerEmail ==
  [][/\ \A raw \in RawEmails, p \in Passwords :
          (/\ authReply'.op = "register"
           /\ \E u \in users : TrimmedLower(u.email) = TrimmedLower(raw)
           /\ Register(raw, p))
          => authReply'.value = "None" /\ users' = users
     /\ \A u, v \in users' :
          TrimmedLower(u.email) = TrimmedLower(v.email) => u = v]_vars

\* A registration was refused for an email that is stored in another spelling.
C26_Witness ==
  /\ authReply.op = "register"
  /\ authReply.value = "None"
  /\ \E u \in users :
       /\ u.email # authReply.arg
       /\ u.email = TrimmedLower(authReply.arg)

\* ------------------------------------------------ claims on the MongoDBPool
\* The step is a call that reaches the client: connect, get_database, client.
Accesses ==
  \E ok \in BOOLEAN : Connect(ok) \/ Client(ok) \/ \E db \in DbNames : GetDatabase(db, ok)

\* C27: MongoDBPool constructs a client only when it holds none: the connect,
\* client and get_database calls between two close calls construct the client
\* once and return that same client; close releases it, so that the next
\* access constructs a new one.
C27_OneClientBetweenCloses ==
  [][/\ (Accesses /\ client # NoClient)
          => /\ constructed' = constructed
             /\ client' = client
             /\ ~poolReply'.raised
             /\ poolReply'.value = client
     /\ (Accesses /\ client = NoClient)
          => /\ constructed' = constructed + 1
             /\ client' \notin {NoClient} \cup released \cup 1..constructed
             /\ ~poolReply'.raised => poolReply'.value = client'
     /\ Close => client' = NoClient /\ (client # NoClient => client \in released')]_vars

\* After a close, an access has constructed a second client and returned it.
C27_Witness ==
  /\ constructed = 2
  /\ released = {1}
  /\ client = 2
  /\ poolReply.op \in {"get_database", "client"}
  /\ poolReply.value = 2

\* C29: when connect fails because the ping raises, the pool holds no client
\* afterwards, so that a later connect or client access attempts a fresh
\* connection instead of returning the client that failed the test: a client
\* the pool returns has answered the ping.
C29_NoClientAfterFailedPing ==
  /\ poolReply.raised => client = NoClient
  /\ (~poolReply.raised /\ poolReply.value # NoClient) => poolReply.value \in verified

====
